---------------------------- MODULE Spec2Model ----------------------------
(***************************************************************************)
(* Model of src/src/App.tsx: a React view that asks the platform for MIDI  *)
(* access, attaches one message handler to every input, keeps the held     *)
(* keys in a Map note -> velocity and renders them sorted by note number.  *)
(*                                                                         *)
(* A JavaScript Map keeps its entries in insertion order, so pressedNotes  *)
(* is a sequence of <<note, velocity>> pairs with distinct notes.  The     *)
(* handler passes FUNCTIONS to setPressedNotes; React keeps them in a      *)
(* queue and applies them, in order, to the committed state when it next   *)
(* renders.  updateQueue is that queue and Render is that step.  The       *)
(* setters of midiStatus and inputNames are given plain values, so they    *)
(* are written straight to their variables.  The event loop runs one       *)
(* handler at a time: every action below is one whole handler.  The        *)
(* platform changes access.inputs in the task that fires statechange, so a *)
(* change of the device list and the handler it calls are one action.      *)
(***************************************************************************)
EXTENDS Integers, Sequences, FiniteSets

VARIABLES
    apiPresent,      \* navigator.requestMIDIAccess exists on this platform
    mounted,         \* the mount effect (lines 40-44) has run
    midiStatus,      \* useState<MIDIStatus>, line 15
    pressedNotes,    \* useState<Map<number, number>>, line 16 (committed state)
    updateQueue,     \* updater functions given to setPressedNotes, not yet applied
    inputNames,      \* useState<string[]>, line 17
    pressedList,     \* what the last render computed at line 76
    request,         \* the promise of requestMIDIAccess: none, pending, granted, rejected
    errorName,       \* err.name of the rejection, "" while there is none
    inputs,          \* access.inputs: the ids of the present inputs, in enumeration order
    onmidimessage,   \* per input: handleMIDIMessage is its onmidimessage
    onstatechange,   \* access.onstatechange is set
    fmtNote,         \* argument of the last midiNoteToName call checked on its own
    fmtName,         \* its result
    inOrder,         \* history: each message's insert or remove applied as it arrived
    requests         \* history: the calls of navigator.requestMIDIAccess so far

vars == <<apiPresent, mounted, midiStatus, pressedNotes, updateQueue, inputNames,
          pressedList, request, errorName, inputs, onmidimessage, onstatechange,
          fmtNote, fmtName, inOrder, requests>>

viewVars == <<apiPresent, mounted, midiStatus, pressedNotes, updateQueue, inputNames,
              pressedList, request, errorName, inputs, onmidimessage, onstatechange,
              inOrder, requests>>

---------------------------------------------------------------------------
(* Bounds of the model. *)

\* Updater functions that may wait for a render.
MaxQueue == 2

\* Calls of navigator.requestMIDIAccess the model counts.
MaxRequests == 2

---------------------------------------------------------------------------
(* The environment: the platform's inputs, errors and message bytes. *)

\* input.name is null for an input the platform gives no name.
NULL == "<null>"

\* The input ports the platform may present.
Ports ==
    { [id |-> "input-0", name |-> "Keystation"],
      [id |-> "input-1", name |-> NULL] }

PortIds == { p.id : p \in Ports }

PortOf(id) == CHOOSE p \in Ports : p.id = id

\* err.name of a rejected requestMIDIAccess.
ErrorNames == { "SecurityError", "NotSupportedError", "InvalidStateError" }

\* event.data of the messages the inputs send: absent, or 0..4 bytes, each
\* a Uint8Array element (0..255).  144 = 0x90, 153 = 0x99, 128 = 0x80,
\* 137 = 0x89; 145 = 0x91, 159 = 0x9F, 129 = 0x81, 176 = 0xB0
\* are other channels and other kinds of message; 200 is a byte no
\* well-formed data byte has.
ShortEvents ==
    { [hasData |-> FALSE, data |-> <<>>],
      [hasData |-> TRUE, data |-> <<>>],
      [hasData |-> TRUE, data |-> <<144>>],
      [hasData |-> TRUE, data |-> <<144, 60>>],
      [hasData |-> TRUE, data |-> <<128, 60>>] }

LongEvents ==
    { [hasData |-> TRUE, data |-> d] :
        d \in { <<144, 60, 100>>, <<153, 64, 100>>, <<144, 64, 127>>,
                <<144, 60, 100, 0>>, <<153, 200, 200>>,
                <<128, 60, 0>>, <<137, 64, 64>>, <<144, 60, 0>>, <<153, 64, 0>>,
                <<128, 64, 0, 7>>,
                <<145, 60, 100>>, <<145, 60, 0>>, <<159, 64, 0>>,
                <<129, 60, 0>>, <<176, 60, 0>>, <<176, 64, 100>> } }

Events == ShortEvents \cup LongEvents

---------------------------------------------------------------------------
(* midiNoteToName, lines 4-10.  A string is a sequence of characters. *)

NOTE_NAMES ==
    << <<"C">>, <<"C", "#">>, <<"D">>, <<"D", "#">>, <<"E">>, <<"F">>,
       <<"F", "#">>, <<"G">>, <<"G", "#">>, <<"A">>, <<"A", "#">>, <<"B">> >>

Digits == << "0", "1", "2", "3", "4", "5", "6", "7", "8", "9" >>

\* The decimal digits of n >= 0, as the template literal prints a number.
RECURSIVE NatToString(_)
NatToString(n) ==
    IF n < 10 THEN << Digits[n + 1] >>
    ELSE NatToString(n \div 10) \o << Digits[(n % 10) + 1] >>

NumberToString(n) == IF n < 0 THEN <<"-">> \o NatToString(-n) ELSE NatToString(n)

\* Faulty variant of midiNoteToName: the octave is not shifted by one.
midiNoteToNameNoShift(note) ==
    LET name == NOTE_NAMES[(note % 12) + 1]
        octave == note \div 12
    IN  name \o NumberToString(octave)

midiNoteToName(note) ==
    LET name == NOTE_NAMES[(note % 12) + 1]
        octave == (note \div 12) - 1
    IN  name \o NumberToString(octave)

---------------------------------------------------------------------------
(* The Map operations handleMIDIMessage uses, on a sequence of pairs. *)

MapHas(m, k) == \E i \in 1..Len(m) : m[i][1] = k

\* Map.prototype.set: an existing key keeps its place, a new one goes last.
MapSet(m, k, v) ==
    IF MapHas(m, k)
    THEN [i \in 1..Len(m) |-> IF m[i][1] = k THEN <<k, v>> ELSE m[i]]
    ELSE Append(m, <<k, v>>)

\* Map.prototype.delete.
MapDelete(m, k) == SelectSeq(m, LAMBDA e : e[1] # k)

\* The two updater functions of lines 30 and 32-36.
SetUpdater(note, velocity) == [kind |-> "set", note |-> note, velocity |-> velocity]

DeleteUpdater(note) == [kind |-> "delete", note |-> note, velocity |-> 0]

ApplyUpdater(prev, u) ==
    IF u.kind = "set" THEN MapSet(prev, u.note, u.velocity)
    ELSE MapDelete(prev, u.note)

\* Faulty variant of ApplyQueue: every updater starts from the rendered
\* mapping, as setPressedNotes(new Map(pressedNotes).set(...)) in the
\* handler's closure would; the last one wins.
ApplyQueueStale(prev, queue) ==
    IF queue = <<>> THEN prev
    ELSE ApplyUpdater(prev, queue[Len(queue)])

\* React applies the queued updaters in the order they were given.
RECURSIVE ApplyQueue(_, _)
ApplyQueue(prev, queue) ==
    IF queue = <<>> THEN prev
    ELSE ApplyQueue(ApplyUpdater(prev, Head(queue)), Tail(queue))

---------------------------------------------------------------------------
(* handleMIDIMessage, lines 19-38. *)

\* a & b on 8-bit values.
RECURSIVE BitAnd(_, _)
BitAnd(a, b) ==
    IF a = 0 \/ b = 0 THEN 0
    ELSE 2 * BitAnd(a \div 2, b \div 2) + (IF a % 2 = 1 /\ b % 2 = 1 THEN 1 ELSE 0)

\* Faulty variant of isNoteOn: channel 9 forgotten.
isNoteOnChannel0(status) == status = 144

\* Faulty variant of isNoteOn: the channel is masked off, as line 27 does.
isNoteOnAnyChannel(status) == BitAnd(status, 240) = 144

isNoteOn(status) == status = 144 \/ status = 153

\* Faulty variant of isNoteOff: channel 9 forgotten.
isNoteOffChannel0(status) == status = 128

isNoteOff(status) == status = 128 \/ status = 137

isNoteOnWithZeroVel(status, velocity) == BitAnd(status, 240) = 144 /\ velocity = 0

\* Faulty variant of Updaters: the length test lets 2-byte messages through (the
\* missing third byte reads as undefined, which is neither > 0 nor === 0).
UpdatersLengthTwo(event) ==
    IF ~event.hasData \/ Len(event.data) < 2 THEN <<>>
    ELSE LET status == event.data[1]
             note == event.data[2]
             velocity == IF Len(event.data) >= 3 THEN event.data[3] ELSE -1
         IN  IF isNoteOn(status) /\ velocity > 0
             THEN << SetUpdater(note, velocity) >>
             ELSE IF isNoteOff(status) \/ isNoteOnWithZeroVel(status, velocity)
             THEN << DeleteUpdater(note) >>
             ELSE <<>>

\* Faulty variant of Updaters: a note-on with velocity 0 is stored as a pressed key.
UpdatersZeroVelocityPressed(event) ==
    IF ~event.hasData \/ Len(event.data) < 3 THEN <<>>
    ELSE LET status == event.data[1]
             note == event.data[2]
             velocity == event.data[3]
         IN  IF isNoteOn(status) /\ velocity >= 0
             THEN << SetUpdater(note, velocity) >>
             ELSE IF isNoteOff(status) \/ isNoteOnWithZeroVel(status, velocity)
             THEN << DeleteUpdater(note) >>
             ELSE <<>>

\* The updaters one call of the handler gives to setPressedNotes.
Updaters(event) ==
    IF ~event.hasData \/ Len(event.data) < 3 THEN <<>>
    ELSE LET status == event.data[1]
             note == event.data[2]
             velocity == event.data[3]
         IN  IF isNoteOn(status) /\ velocity > 0
             THEN << SetUpdater(note, velocity) >>
             ELSE IF isNoteOff(status) \/ isNoteOnWithZeroVel(status, velocity)
             THEN << DeleteUpdater(note) >>
             ELSE <<>>

\* setPressedNotes(f) puts f behind the updaters already waiting.
QueueAfter(event) == updateQueue \o Updaters(event)

\* The history of the messages: the insert or remove of this one, applied
\* at once to the mapping the earlier ones left.
InOrderAfter(event) ==
    IF Updaters(event) = <<>> THEN inOrder
    ELSE ApplyUpdater(inOrder, Updaters(event)[1])

handleMIDIMessage(event) ==
    /\ updateQueue' = QueueAfter(event)
    /\ inOrder' = InOrderAfter(event)
    /\ UNCHANGED <<apiPresent, mounted, midiStatus, pressedNotes, inputNames,
                   pressedList, request, errorName, inputs, onmidimessage,
                   onstatechange, fmtNote, fmtName, requests>>

---------------------------------------------------------------------------
(* The render, lines 76-114. *)

\* Faulty variant of CompareNotes: the operands swapped.
CompareNotesDescending(a, b) == b[1] - a[1]

\* Array.prototype.sort with the comparator of line 76.
CompareNotes(a, b) == a[1] - b[1]

RECURSIVE InsertSorted(_, _)
InsertSorted(sorted, e) ==
    IF sorted = <<>> THEN <<e>>
    ELSE IF CompareNotes(e, Head(sorted)) < 0 THEN <<e>> \o sorted
    ELSE <<Head(sorted)>> \o InsertSorted(Tail(sorted), e)

RECURSIVE SortEntries(_)
SortEntries(entries) ==
    IF entries = <<>> THEN <<>>
    ELSE InsertSorted(SortEntries(SubSeq(entries, 1, Len(entries) - 1)),
                      entries[Len(entries)])

\* Faulty variant of ConnectOffered: the button is rendered in every status.
ConnectOfferedAlways == TRUE

\* The connect button is rendered, line 90.
ConnectOffered == midiStatus = "idle"

\* The rows of the notes list, lines 103-109.
NoteRows ==
    [i \in 1..Len(pressedList) |->
        [name |-> midiNoteToName(pressedList[i][1]),
         note |-> pressedList[i][1],
         velocity |-> pressedList[i][2]]]

\* React renders after an update was queued: the queued updaters are applied
\* to the committed state and line 76 runs on the result.
Render ==
    /\ updateQueue # <<>>
    /\ pressedNotes' = ApplyQueue(pressedNotes, updateQueue)
    /\ updateQueue' = <<>>
    /\ pressedList' = SortEntries(pressedNotes')
    /\ UNCHANGED <<apiPresent, mounted, midiStatus, inputNames, request, errorName,
                   inputs, onmidimessage, onstatechange, fmtNote, fmtName, inOrder, requests>>

---------------------------------------------------------------------------
(* The mount effect, lines 40-44. *)

Mount ==
    /\ ~mounted
    /\ mounted' = TRUE
    /\ midiStatus' = IF ~apiPresent THEN "unsupported" ELSE midiStatus
    /\ UNCHANGED <<apiPresent, pressedNotes, updateQueue, inputNames, pressedList,
                   request, errorName, inputs, onmidimessage, onstatechange,
                   fmtNote, fmtName, inOrder, requests>>

---------------------------------------------------------------------------
(* connectMIDI, lines 46-74. *)

\* input.name ?? input.id ?? 'MIDI Input'
InputLabel(port) ==
    IF port.name # NULL THEN port.name
    ELSE IF port.id # NULL THEN port.id
    ELSE "MIDI Input"

\* The names pushed by access.inputs.forEach, lines 53-55 and 60-62.
InputLabels(ids) == [i \in 1..Len(ids) |-> InputLabel(PortOf(ids[i]))]

InputSet(ids) == { ids[i] : i \in 1..Len(ids) }

\* Lines 54-57: every input gets the handler.
AttachOnGrant(handlers, ids) ==
    [id \in PortIds |-> IF id \in InputSet(ids) THEN TRUE ELSE handlers[id]]

\* Faulty variant of AttachOnStateChange: the handler is attached on grant only.
AttachOnStateChangeNever(handlers, ids) == handlers

\* Lines 61-66: every input that has not got the handler gets it.
AttachOnStateChange(handlers, ids) ==
    [id \in PortIds |->
        IF id \in InputSet(ids) /\ ~handlers[id] THEN TRUE ELSE handlers[id]]

\* Faulty variant of RejectedStatus: another error name is taken for the denial.
RejectedStatusNotAllowed(name) == IF name = "NotAllowedError" THEN "denied" ELSE "error"

\* Line 71.
RejectedStatus(name) == IF name = "SecurityError" THEN "denied" ELSE "error"

\* Faulty variant of connectMIDI: line 47 is missing, the request is made
\* whether the platform has the API or not.
connectMIDIUnguarded ==
    /\ ConnectOffered
    /\ requests < MaxRequests
    /\ midiStatus' = "requesting"
    /\ request' = "pending"
    /\ requests' = requests + 1
    /\ mounted' = TRUE
    /\ UNCHANGED <<apiPresent, pressedNotes, updateQueue, inputNames,
                   pressedList, errorName, inputs, onmidimessage, onstatechange,
                   fmtNote, fmtName, inOrder>>

\* The click on the connect button: lines 46-50, up to the request.  The
\* button is on the page from the first render, so a click may come before
\* the mount effect; React runs a pending effect before it renders the
\* update of line 48, and without the API line 47 returns and nothing is
\* rendered.
connectMIDI ==
    /\ ConnectOffered
    /\ IF ~apiPresent
       THEN UNCHANGED <<midiStatus, request, mounted, requests>>
       ELSE /\ requests < MaxRequests
            /\ midiStatus' = "requesting"
            /\ request' = "pending"
            /\ requests' = requests + 1
            /\ mounted' = TRUE
    /\ UNCHANGED <<apiPresent, pressedNotes, updateQueue, inputNames,
                   pressedList, errorName, inputs, onmidimessage, onstatechange,
                   fmtNote, fmtName, inOrder>>

\* Faulty variant of AccessGranted: line 52 is missing.
AccessGrantedNoStatus ==
    /\ request = "pending"
    /\ request' = "granted"
    /\ inputNames' = InputLabels(inputs)
    /\ onmidimessage' = AttachOnGrant(onmidimessage, inputs)
    /\ onstatechange' = TRUE
    /\ UNCHANGED <<apiPresent, mounted, midiStatus, pressedNotes, updateQueue,
                   pressedList, errorName, inputs, fmtNote, fmtName, inOrder,
                   requests>>

\* The .then callback, lines 51-69.
AccessGranted ==
    /\ request = "pending"
    /\ request' = "granted"
    /\ midiStatus' = "ready"
    /\ inputNames' = InputLabels(inputs)
    /\ onmidimessage' = AttachOnGrant(onmidimessage, inputs)
    /\ onstatechange' = TRUE
    /\ UNCHANGED <<apiPresent, mounted, pressedNotes, updateQueue, pressedList,
                   errorName, inputs, fmtNote, fmtName, inOrder, requests>>

\* The .catch callback, lines 70-73.
AccessRejected(name) ==
    /\ request = "pending"
    /\ request' = "rejected"
    /\ errorName' = name
    /\ midiStatus' = RejectedStatus(name)
    /\ UNCHANGED <<apiPresent, mounted, pressedNotes, updateQueue, inputNames,
                   pressedList, inputs, onmidimessage, onstatechange,
                   fmtNote, fmtName, inOrder, requests>>

---------------------------------------------------------------------------
(* The platform.  It changes access.inputs and fires statechange at the    *)
(* access object in one task, so the handler of lines 59-68, once set,     *)
(* runs on the changed list before anything else does.                     *)

\* The statechange event: access.onstatechange (lines 59-68) runs when it is
\* set; handlers and ids are the ports' onmidimessage and access.inputs as
\* the platform left them.
DispatchStateChange(handlers, ids) ==
    IF onstatechange
    THEN /\ inputNames' = InputLabels(ids)
         /\ onmidimessage' = AttachOnStateChange(handlers, ids)
    ELSE /\ inputNames' = inputNames
         /\ onmidimessage' = handlers

\* An input is plugged in.  The platform may present the port object it
\* presented before (its onmidimessage kept) or a new one.
PortConnected(id, sameObject) ==
    /\ apiPresent
    /\ id \notin InputSet(inputs)
    /\ inputs' = Append(inputs, id)
    /\ DispatchStateChange([onmidimessage EXCEPT ![id] = sameObject /\ @], inputs')
    /\ UNCHANGED <<apiPresent, mounted, midiStatus, pressedNotes, updateQueue,
                   pressedList, request, errorName, onstatechange, fmtNote, fmtName, inOrder, requests>>

\* Faulty variant of PortDisconnected: the view drops the held keys when an
\* input goes away.
PortDisconnectedClearing(id) ==
    /\ apiPresent
    /\ id \in InputSet(inputs)
    /\ inputs' = SelectSeq(inputs, LAMBDA x : x # id)
    /\ DispatchStateChange(onmidimessage, inputs')
    /\ pressedNotes' = <<>>
    /\ updateQueue' = <<>>
    /\ pressedList' = <<>>
    /\ UNCHANGED <<apiPresent, mounted, midiStatus, request, errorName,
                   onstatechange, fmtNote, fmtName, inOrder, requests>>

\* An input is unplugged.
PortDisconnected(id) ==
    /\ apiPresent
    /\ id \in InputSet(inputs)
    /\ inputs' = SelectSeq(inputs, LAMBDA x : x # id)
    /\ DispatchStateChange(onmidimessage, inputs')
    /\ UNCHANGED <<apiPresent, mounted, midiStatus, pressedNotes, updateQueue,
                   pressedList, request, errorName, onstatechange, fmtNote, fmtName, inOrder, requests>>

\* A present port changes its connection (it is opened when onmidimessage
\* is set, line 56): statechange fires and the list is as it was.
PortStateChanged(id) ==
    /\ onstatechange
    /\ id \in InputSet(inputs)
    /\ DispatchStateChange(onmidimessage, inputs)
    /\ UNCHANGED <<apiPresent, mounted, midiStatus, pressedNotes, updateQueue,
                   pressedList, request, errorName, inputs, onstatechange,
                   fmtNote, fmtName, inOrder, requests>>

\* A present input with the handler attached delivers a message.
Deliverable(event) ==
    /\ \E id \in InputSet(inputs) : onmidimessage[id]
    /\ Len(QueueAfter(event)) <= MaxQueue

MIDIMessage(event) ==
    /\ Deliverable(event)
    /\ handleMIDIMessage(event)

---------------------------------------------------------------------------
(* The specification of the view. *)

Init ==
    /\ apiPresent \in BOOLEAN
    /\ mounted = FALSE
    /\ midiStatus = "idle"
    /\ pressedNotes = <<>>
    /\ updateQueue = <<>>
    /\ inputNames = <<>>
    /\ pressedList = <<>>
    /\ request = "none"
    /\ errorName = ""
    /\ inputs = <<>>
    /\ onmidimessage = [id \in PortIds |-> FALSE]
    /\ onstatechange = FALSE
    /\ fmtNote = 0
    /\ fmtName = midiNoteToName(0)
    /\ inOrder = <<>>
    /\ requests = 0

Next ==
    \/ Mount
    \/ connectMIDI
    \/ AccessGranted
    \/ \E name \in ErrorNames : AccessRejected(name)
    \/ \E id \in PortIds, sameObject \in BOOLEAN : PortConnected(id, sameObject)
    \/ \E id \in PortIds : PortDisconnected(id)
    \/ \E id \in PortIds : PortStateChanged(id)
    \/ \E event \in Events : MIDIMessage(event)
    \/ Render

Spec == Init /\ [][Next]_vars

---------------------------------------------------------------------------
(* The view when no input sends a release on channel 0 or 9: every message *)
(* is a press, a short message or a message of another status.             *)

IsRelease09(event) ==
    /\ event.hasData
    /\ Len(event.data) >= 3
    /\ \/ event.data[1] \in {128, 137}
       \/ event.data[1] \in {144, 153} /\ event.data[3] = 0

EventsOther == { event \in Events : ~IsRelease09(event) }

NextOther ==
    \/ Mount
    \/ connectMIDI
    \/ AccessGranted
    \/ \E name \in ErrorNames : AccessRejected(name)
    \/ \E id \in PortIds, sameObject \in BOOLEAN : PortConnected(id, sameObject)
    \/ \E id \in PortIds : PortDisconnected(id)
    \/ \E id \in PortIds : PortStateChanged(id)
    \/ \E event \in EventsOther : MIDIMessage(event)
    \/ Render

SpecOther == Init /\ [][NextOther]_vars

---------------------------------------------------------------------------
(* The specification of midiNoteToName on its own: every note 0..127. *)

FormatNote(note) ==
    /\ fmtNote' = note
    /\ fmtName' = midiNoteToName(note)
    /\ UNCHANGED viewVars

NextFormat == \E note \in 0..127 : FormatNote(note)

SpecFormat == Init /\ [][NextFormat]_vars

---------------------------------------------------------------------------
(* What the claims speak about. *)

\* PressedNotes: the mapping once every updater given so far is applied.
Held == ApplyQueue(pressedNotes, updateQueue)

\* The velocities m maps note k to: one for a mapping that holds k, none
\* (Absent) for one that does not.
Lookup(m, k) == { m[i][2] : i \in { j \in 1..Len(m) : m[j][1] = k } }

Absent == {}

Keys(m) == { m[i][1] : i \in 1..Len(m) }

\* m is a mapping: no note has two entries.
IsMapping(m) == \A i, j \in 1..Len(m) : m[i][1] = m[j][1] => i = j

\* after is before, but for note k.
SameBut(before, after, k) ==
    \A n \in (Keys(before) \cup Keys(after)) \ {k} :
        Lookup(after, n) = Lookup(before, n)

IsLong(event) == event.hasData /\ Len(event.data) >= 3

StatusOf(event) == event.data[1]

NoteOf(event) == event.data[2]

VelocityOf(event) == event.data[3]

\* PressedNotes once the handler has run on event in the current state.
HeldAfter(event) == ApplyQueue(pressedNotes, QueueAfter(event))

---------------------------------------------------------------------------
\* C1: handling a 3-byte note-on message (status 0x90 or 0x99, note 0..127,
\* velocity 1..127) yields a PressedNotes that maps the note to exactly that
\* velocity, replacing an earlier one, and is otherwise the prior mapping.
C1_NoteOnSetsVelocity ==
    \A event \in Events :
        ( /\ Deliverable(event)
          /\ event.hasData /\ Len(event.data) = 3
          /\ StatusOf(event) \in {144, 153}
          /\ NoteOf(event) \in 0..127
          /\ VelocityOf(event) \in 1..127 )
        => /\ IsMapping(HeldAfter(event))
           /\ Lookup(HeldAfter(event), NoteOf(event)) = {VelocityOf(event)}
           /\ SameBut(Held, HeldAfter(event), NoteOf(event))

\* A note-on waits in the queue for a note the committed mapping holds with
\* another velocity, beside another held note: the velocity is replaced.
C1_Witness ==
    \E i \in 1..Len(updateQueue) :
        /\ updateQueue[i].kind = "set"
        /\ updateQueue[i].note \in 0..127
        /\ updateQueue[i].velocity \in 1..127
        /\ Lookup(pressedNotes, updateQueue[i].note)
               \notin {Absent, {updateQueue[i].velocity}}
        /\ Lookup(Held, updateQueue[i].note) = {updateQueue[i].velocity}
        /\ Len(Held) >= 2

\* C2: a note-off (0x80 or 0x89, any velocity byte) or a note-on with
\* velocity 0 removes its note from PressedNotes and leaves every other
\* entry; for a note that is not pressed PressedNotes stays as it is.
C2_ReleaseRemovesNote ==
    \A event \in Events :
        ( /\ Deliverable(event)
          /\ IsLong(event)
          /\ \/ StatusOf(event) \in {128, 137}
             \/ StatusOf(event) \div 16 = 9 /\ VelocityOf(event) = 0 )
        => /\ IsMapping(HeldAfter(event))
           /\ Lookup(HeldAfter(event), NoteOf(event)) = Absent
           /\ SameBut(Held, HeldAfter(event), NoteOf(event))
           /\ Lookup(Held, NoteOf(event)) = Absent => HeldAfter(event) = Held

\* A release waits in the queue for a note the committed mapping holds, and
\* another note stays held.
C2_Witness ==
    \E i \in 1..Len(updateQueue) :
        /\ updateQueue[i].kind = "delete"
        /\ Lookup(pressedNotes, updateQueue[i].note) # Absent
        /\ Lookup(Held, updateQueue[i].note) = Absent
        /\ Held # <<>>

\* C3: a message with no data or fewer than 3 bytes never changes
\* PressedNotes.
C3_ShortMessageIgnored ==
    \A event \in Events :
        (Deliverable(event) /\ (~event.hasData \/ Len(event.data) < 3))
        => /\ HeldAfter(event) = Held
           /\ QueueAfter(event) = updateQueue

\* Keys are held, an update still waits, and an input has the handler: the
\* short messages of every length arrive here.
C3_Witness ==
    /\ \A event \in ShortEvents : Deliverable(event)
    /\ Len(pressedNotes) >= 2
    /\ Len(updateQueue) = 1
    /\ Held # pressedNotes

\* The status byte is none of 0x90, 0x99, 0x80, 0x89.
IsOtherStatus(event) == IsLong(event) /\ StatusOf(event) \notin {144, 153, 128, 137}

\* C4 as claimed: handling a message of 3 or more bytes whose status byte is
\* none of 0x90, 0x99, 0x80, 0x89 leaves PressedNotes unchanged, velocity 0
\* included.
C4_Original ==
    [][\A event \in EventsOther :
         (IsOtherStatus(event) /\ MIDIMessage(event)) => Held' = Held]_vars

\* C4 as amended: such a message leaves PressedNotes unchanged unless it is a
\* note-on of another channel (0x91..0x98, 0x9A..0x9F) with velocity 0, which
\* removes its note and leaves every other entry.
C4_OtherStatusIgnoredButZeroVelocity ==
    \A event \in EventsOther :
        (Deliverable(event) /\ IsOtherStatus(event))
        => IF StatusOf(event) \div 16 = 9 /\ VelocityOf(event) = 0
           THEN /\ Lookup(HeldAfter(event), NoteOf(event)) = Absent
                /\ SameBut(Held, HeldAfter(event), NoteOf(event))
                /\ IsMapping(HeldAfter(event))
           ELSE /\ HeldAfter(event) = Held
                /\ QueueAfter(event) = updateQueue

\* Under SpecOther no release of channel 0 or 9 is sent: the removal waiting
\* in the queue for a held note came from a note-on of another channel with
\* velocity 0.
C4_Witness ==
    \E i \in 1..Len(updateQueue) :
        /\ updateQueue[i].kind = "delete"
        /\ Lookup(pressedNotes, updateQueue[i].note) # Absent
        /\ Lookup(Held, updateQueue[i].note) = Absent
        /\ Held # <<>>
        /\ Len(pressedNotes) >= 2

\* C5: ConnectionState starts at idle and changes only along
\* idle->requesting, requesting->ready, requesting->denied,
\* requesting->error and idle->unsupported; unsupported, ready, denied and
\* error are never left.
C5_StatusTransitions ==
    /\ midiStatus = "idle"
    /\ [][midiStatus' # midiStatus =>
            <<midiStatus, midiStatus'>> \in
                { <<"idle", "requesting">>, <<"requesting", "ready">>,
                  <<"requesting", "denied">>, <<"requesting", "error">>,
                  <<"idle", "unsupported">> }]_vars

\* The view is ready, has handled a device-list change and has rendered held
\* keys: clicks, callbacks, device changes and messages have all happened.
C5_Witness ==
    /\ midiStatus = "ready"
    /\ Len(inputNames) = 2
    /\ pressedList # <<>>
    /\ updateQueue # <<>>

\* C6: when the access request fails, ConnectionState is denied exactly when
\* the failure is the permission error (the one named SecurityError) and
\* error for every other failure; InputNames stays empty and no input has
\* the message handler.
C6_RejectionStatus ==
    request = "rejected" =>
        /\ errorName = "SecurityError" => midiStatus = "denied"
        /\ errorName # "SecurityError" => midiStatus = "error"
        /\ inputNames = <<>>
        /\ \A id \in PortIds : ~onmidimessage[id]

\* The request failed for another reason than permission while inputs are
\* plugged in.
C6_Witness ==
    /\ request = "rejected"
    /\ errorName = "NotSupportedError"
    /\ midiStatus = "error"
    /\ Len(inputs) = 2

\* The name the view shows for a port: its name, its id when it has none.
ShownName(id) == IF PortOf(id).name = NULL THEN id ELSE PortOf(id).name

\* C7: once access is granted, and after every device-list change, every
\* present input has the message handler and InputNames is the names of
\* exactly the present inputs in enumeration order.
C7_InputsTracked ==
    request = "granted" =>
        /\ \A id \in InputSet(inputs) : onmidimessage[id]
        /\ Len(inputNames) = Len(inputs)
        /\ \A i \in 1..Len(inputs) : inputNames[i] = ShownName(inputs[i])

\* Access is granted and both inputs are present, the unnamed one first.
C7_Witness ==
    /\ request = "granted"
    /\ inputs = <<"input-1", "input-0">>
    /\ inputNames = <<"input-1", "Keystation">>
    /\ \A id \in PortIds : onmidimessage[id]

\* C8: the rendered list has exactly one row per entry of PressedNotes (same
\* note, same velocity) and its rows are in strictly ascending order of note
\* number.
C8_RowsSortedByNote ==
    /\ Len(NoteRows) = Len(pressedNotes)
    /\ \A i \in 1..Len(pressedNotes) :
          Cardinality({ j \in 1..Len(NoteRows) :
                          /\ NoteRows[j].note = pressedNotes[i][1]
                          /\ NoteRows[j].velocity = pressedNotes[i][2] }) = 1
    /\ \A j \in 1..(Len(NoteRows) - 1) : NoteRows[j].note < NoteRows[j + 1].note

\* 64 was pressed before 60 and both are rendered.
C8_Witness ==
    /\ Len(pressedNotes) >= 2
    /\ pressedNotes[1][1] = 64
    /\ pressedNotes[2][1] = 60
    /\ Len(pressedList) = Len(pressedNotes)
    /\ pressedList[1][1] = 60
    /\ pressedList[2][1] = 64
    /\ updateQueue = <<>>

\* C9 as claimed: every key of PressedNotes is in 0..127 and every value in
\* 1..127, whatever bytes 0..255 the messages hold.
C9_Original ==
    \A i \in 1..Len(Held) : Held[i][1] \in 0..127 /\ Held[i][2] \in 1..127

\* C9 as amended: every key of PressedNotes is a byte 0..255 and every value
\* a byte 1..255; no entry ever has velocity 0.
C9_EntriesAreBytesNoZeroVelocity ==
    /\ \A i \in 1..Len(Held) : Held[i][1] \in 0..255 /\ Held[i][2] \in 1..255
    /\ \A i \in 1..Len(pressedNotes) :
          pressedNotes[i][1] \in 0..255 /\ pressedNotes[i][2] \in 1..255

\* A note-on with bytes above 127 was handled beside a well-formed one, and
\* a note-on with velocity 0 was handled for a held note.
C9_Witness ==
    /\ Lookup(Held, 200) = {200}
    /\ Lookup(pressedNotes, 64) # Absent
    /\ Lookup(Held, 64) = Absent
    /\ Len(Held) >= 2

\* The table and the octave numbers C10 names.
C10_Table ==
    << <<"C">>, <<"C", "#">>, <<"D">>, <<"D", "#">>, <<"E">>, <<"F">>,
       <<"F", "#">>, <<"G">>, <<"G", "#">>, <<"A">>, <<"A", "#">>, <<"B">> >>

C10_Octaves ==
    << <<"-", "1">>, <<"0">>, <<"1">>, <<"2">>, <<"3">>, <<"4">>, <<"5">>,
       <<"6">>, <<"7">>, <<"8">>, <<"9">> >>

\* C10: for every note in 0..127, midiNoteToName(note) is the entry at index
\* note mod 12 of the table C, C#, ..., B followed by the octave number
\* floor(note/12) - 1; 60 gives C4, 69 gives A4 and 0 gives C-1.
C10_NoteName ==
    /\ fmtNote \in 0..127
    /\ fmtName = C10_Table[(fmtNote % 12) + 1]
                   \o C10_Octaves[((fmtNote \div 12) - 1) + 2]
    /\ fmtNote = 60 => fmtName = <<"C", "4">>
    /\ fmtNote = 69 => fmtName = <<"A", "4">>
    /\ fmtNote = 0 => fmtName = <<"C", "-", "1">>

\* The name of note 69 was computed.
C10_Witness == fmtNote = 69 /\ fmtName = <<"A", "4">>

\* updateQueue grew at its end and the committed mapping stayed: what one
\* run of the message handler does, and nothing else.
HandlerWrote ==
    /\ pressedNotes' = pressedNotes
    /\ Len(updateQueue') > Len(updateQueue)
    /\ SubSeq(updateQueue', 1, Len(updateQueue)) = updateQueue

\* C11: the message handler is the only writer of PressedNotes: the mount
\* effect, a click, the grant, the rejection and every device-list change
\* (the unplugging of the input whose keys are held too) leave it unchanged;
\* and handling a message changes neither ConnectionState nor InputNames.
C11_OnlyHandlerWritesPressedNotes ==
    [][ /\ Held' # Held => HandlerWrote
        /\ <<mounted, midiStatus, request, errorName, inputNames, inputs,
              onmidimessage, onstatechange>>
               # <<mounted', midiStatus', request', errorName', inputNames',
                   inputs', onmidimessage', onstatechange'>>
             => /\ Held' = Held
                /\ UNCHANGED <<pressedNotes, updateQueue, pressedList>>
        /\ updateQueue' # updateQueue
             => UNCHANGED <<midiStatus, inputNames>> ]_vars

\* Every input is unplugged and the keys pressed on them are still held,
\* rendered and waiting.
C11_Witness ==
    /\ request = "granted"
    /\ inputs = <<>>
    /\ inputNames = <<>>
    /\ pressedNotes # <<>>
    /\ updateQueue # <<>>
    /\ Held # <<>>

\* C12: no update of messages handled between two renders is lost: after any
\* sequence of messages PressedNotes is what applying each message's insert
\* or remove in arrival order to the empty mapping gives, wherever the
\* renders fall between the messages.
C12_NoUpdateLost ==
    /\ Held = inOrder
    /\ updateQueue = <<>> => pressedNotes = inOrder

\* After a render two messages were handled with no render between them,
\* and the second alone, applied to the rendered mapping, would give another
\* result.
C12_Witness ==
    /\ pressedNotes # <<>>
    /\ Len(updateQueue) = 2
    /\ ApplyUpdater(pressedNotes, updateQueue[1]) # pressedNotes
    /\ ApplyUpdater(pressedNotes, updateQueue[2]) # Held
    /\ Held = inOrder

\* C13: PressedNotes is non-empty only while ConnectionState is ready: in
\* idle, requesting, unsupported, denied and error no key is held, none is
\* rendered and no update waits.
C13_HeldOnlyWhenReady ==
    midiStatus # "ready" =>
        /\ Held = <<>>
        /\ pressedNotes = <<>>
        /\ updateQueue = <<>>
        /\ pressedList = <<>>

\* The view is ready with a key held and rendered, and an input with the
\* handler is present.
C13_Witness ==
    /\ midiStatus = "ready"
    /\ \E id \in InputSet(inputs) : onmidimessage[id]
    /\ pressedList # <<>>
    /\ Held # <<>>
    /\ updateQueue = <<>>

\* C14: the connect action is offered exactly while ConnectionState is idle,
\* a click calls requestMIDIAccess only when the platform has it, so the
\* call is made at most once in the life of the view and never after
\* denied, error, ready or unsupported.
C14_RequestAtMostOnce ==
    /\ [](/\ ConnectOffered <=> midiStatus = "idle"
          /\ requests <= 1
          /\ ~apiPresent => requests = 0)
    /\ [][requests' # requests =>
            /\ requests' = requests + 1
            /\ midiStatus = "idle"
            /\ apiPresent]_vars

\* The one request was made and rejected: the view shows denied after the
\* mount effect ran.
C14_Witness ==
    /\ requests = 1
    /\ midiStatus = "denied"
    /\ mounted
    /\ ~ConnectOffered

===========================================================================
